---- MODULE Spec2Model ----
(***************************************************************************)
(* Model of the Medusa gRPC service (medusa/service/grpc/server.py):       *)
(* the four request handlers of MedusaService, the status resolver         *)
(* handle_backup_status, the registry helpers and Server.shutdown, run by  *)
(* the worker threads of the gRPC thread pool next to the per-job worker   *)
(* thread that each Backup request starts.                                 *)
(***************************************************************************)
EXTENDS Integers, Sequences, FiniteSets, Bags, TLC

\* ---------------------------------------------------------------- bounds
\* gRPC worker threads that serve requests concurrently
NumThreads == 2
\* jobs submitted over the lifetime of the process
MaxFutures == 2
Names == {"snap1", "ghost"}
Modes == {"FULL", "DIFFERENTIAL"}

\* Python's None in a string or enum field, also "field never assigned"
None == "None"
\* Python's None in a timestamp field (timestamps count from the epoch)
NoTime == 0 - 1

\* BackupMan status constants
IN_PROGRESS == "IN_PROGRESS"
SUCCESS == "SUCCESS"
FAILED == "FAILED"

\* grpc.StatusCode values set on the context ("OK" when never set)
OK == "OK"
INTERNAL == "INTERNAL"
NOT_FOUND == "NOT_FOUND"

VARIABLES
    registry,   \* BackupMan: dict from backup name to future id
    futures,    \* the futures handed out by executor.submit, by id 1, 2, ...
    records,    \* durable storage: dict from backup name to cluster backup record
    server,     \* "serving", or "stopped" once Server.shutdown has run
    inflight,   \* bag of the handler activations that have not returned yet:
                \* position (pc) and locals (request name, backup_future) of each
    last,       \* the call that has just ended and its outcome, until the
                \* transport has sent it (NoCall otherwise)
    registered  \* history: every <<name, future id>> that set_backup has stored

vars == <<registry, futures, records, server, inflight, last, registered>>

\* ------------------------------------------------------------ data shapes
NoFuture ==
    [kind |-> None, name |-> None, state |-> None, exception |-> FALSE]
\* a response as the transport sees it: returned = FALSE when the handler
\* was left by an exception instead of a return statement
NoCall ==
    [op |-> None, name |-> None, returned |-> FALSE, code |-> OK,
     backupName |-> None, status |-> None, startTime |-> None,
     finishTime |-> None, backups |-> <<>>, backup_future |-> 0,
     storage_fault |-> FALSE]

\* an activation; a future id of 0 stands for "no future"
Frame(pc, name, backup_future) ==
    [pc |-> pc, name |-> name, backup_future |-> backup_future]

\* The outcome of a handler is handed to the transport as soon as the
\* handler ends (Respond). The hand-over reads and writes nothing else, so
\* the model takes it before any other step: no interleaving is lost.
Delivered == last = NoCall

\* a gRPC worker thread is free to take a request
FreeThread == Delivered /\ BagCardinality(inflight) < NumThreads

Enter(fr) == inflight (+) SetToBag({fr})
Leave(fr) == inflight (-) SetToBag({fr})

EmptyDict == [n \in {} |-> 0]

Init ==
    /\ registry = EmptyDict
    /\ futures = <<>>
    /\ records = EmptyDict
    /\ server = "serving"
    /\ inflight = EmptyBag
    /\ last = NoCall
    /\ registered = {}

\* ------------------------------------------------ the registry (BackupMan)
set_backup(reg, backup_name, backup_future) ==
    [n \in DOMAIN reg \cup {backup_name} |->
        IF n = backup_name THEN backup_future ELSE reg[n]]

\* the future stored under the name, NoFuture (Python's None) when absent
get_backup_future(backup_name) ==
    IF backup_name \in DOMAIN registry
    THEN futures[registry[backup_name]]
    ELSE NoFuture

\* a removal that takes an absent name for a reason to drop the table
remove_backup_absent_clears(reg, backup_name) ==
    IF backup_name \in DOMAIN reg
    THEN [n \in DOMAIN reg \ {backup_name} |-> reg[n]]
    ELSE EmptyDict

remove_backup(reg, backup_name) ==
    [n \in DOMAIN reg \ {backup_name} |-> reg[n]]

cleanup_all_backups(reg) == EmptyDict

\* every pair the registry holds after a step has been stored by set_backup
History ==
    registered' =
        registered \cup {<<n, registry'[n]>> : n \in DOMAIN registry'}

\* ------------------------------------- concurrent.futures / asyncio library
\* asyncio.isfuture: true of asyncio.Future, asyncio.Task and objects that
\* carry _asyncio_future_blocking; a concurrent.futures.Future is none of them
isfuture(fut) == fut.kind \in {"asyncio.Future", "asyncio.Task"}

done(fut) == fut.state \in {"FINISHED", "CANCELLED"}

cancelled(fut) == fut.state = "CANCELLED"

\* Future.result() of a finished future: re-raises the exception the job
\* ended with, otherwise hands back the job's return value
result_raises(fut) == fut.state = "CANCELLED" \/ fut.exception

\* ------------------------------------------------------------ the resolver
\* a resolver that takes a missing entry for a job that has not finished
handle_backup_status_absent_as_running(backup_name) ==
    LET backup_future == get_backup_future(backup_name) IN
    IF backup_future # NoFuture /\ isfuture(backup_future)
    THEN IF done(backup_future) /\ ~cancelled(backup_future)
         THEN IF result_raises(backup_future)
              THEN [raised |-> TRUE, status |-> None]
              ELSE [raised |-> FALSE, status |-> SUCCESS]
         ELSE [raised |-> FALSE, status |-> FAILED]
    ELSE [raised |-> FALSE, status |-> IN_PROGRESS]

\* the pair (status, result) of the code is kept as its status; raised tells
\* that the call was left by an exception
handle_backup_status(backup_name) ==
    LET backup_future == get_backup_future(backup_name) IN
    IF backup_future # NoFuture /\ isfuture(backup_future)
    THEN LET fut == backup_future IN
         IF done(fut) /\ ~cancelled(fut)
         THEN IF result_raises(fut)
              THEN [raised |-> TRUE, status |-> None]
              ELSE [raised |-> FALSE, status |-> SUCCESS]
         ELSE IF ~done(fut) /\ ~cancelled(fut)
              THEN [raised |-> FALSE, status |-> IN_PROGRESS]
              ELSE [raised |-> FALSE, status |-> FAILED]
    ELSE [raised |-> FALSE, status |-> None]

\* a removal that drops every entry instead of the named one
handle_backup_removal_drops_all(reg, backup_name) == cleanup_all_backups(reg)

handle_backup_removal(reg, backup_name) == remove_backup(reg, backup_name)

handle_backup_removal_all(reg) == cleanup_all_backups(reg)

\* ------------------------------------------------------ MedusaService.Backup
\* the id of the next future the executor hands out
NextFuture == Len(futures) + 1

\* a handler whose except branch does not set the FAILED status, so that the
\* response keeps the status of an accepted request
BackupSubmit_failure_keeps_status(name, request_mode, submitted) ==
    /\ FreeThread
    /\ server # "stopped"
    /\ IF submitted
       THEN /\ Len(futures) < MaxFutures
            /\ futures' = Append(futures,
                   [kind |-> "concurrent.futures.Future", name |-> name,
                    state |-> "RUNNING", exception |-> FALSE])
            /\ inflight' = Enter(Frame("Backup_set_backup", name, NextFuture))
            /\ UNCHANGED last
       ELSE /\ last' =
                   [NoCall EXCEPT !.op = "Backup", !.name = name,
                                  !.returned = TRUE, !.code = INTERNAL,
                                  !.backupName = name, !.status = IN_PROGRESS]
            /\ UNCHANGED <<futures, inflight>>
    /\ UNCHANGED <<registry, records, server>>
    /\ History

\* lines 102-114: the request is accepted and executor.submit is called (the
\* mode goes to the job, nothing in the service reads it back);
\* submitted = FALSE is a submit that raises, which leaves the with block
\* (no job to join) and runs the except branch of lines 119-125
BackupSubmit(name, request_mode, submitted) ==
    /\ FreeThread
    /\ server # "stopped"
    /\ IF submitted
       THEN /\ Len(futures) < MaxFutures
            /\ futures' = Append(futures,
                   [kind |-> "concurrent.futures.Future", name |-> name,
                    state |-> "RUNNING", exception |-> FALSE])
            /\ inflight' = Enter(Frame("Backup_set_backup", name, NextFuture))
            /\ UNCHANGED last
       ELSE /\ last' =
                   [NoCall EXCEPT !.op = "Backup", !.name = name,
                                  !.returned = TRUE, !.code = INTERNAL,
                                  !.backupName = name, !.status = FAILED]
            /\ UNCHANGED <<futures, inflight>>
    /\ UNCHANGED <<registry, records, server>>
    /\ History

\* a handler that submits the job and forgets to register its future
BackupRegister_without_set_backup(fr) ==
    /\ Delivered
    /\ fr.pc = "Backup_set_backup"
    /\ inflight' = Leave(fr) (+) SetToBag({[fr EXCEPT !.pc = "Backup_exit_with"]})
    /\ UNCHANGED <<registry, futures, records, server, last>>
    /\ History

\* a handler that keeps the handle a name already has (first writer wins)
BackupRegister_keeps_existing(fr) ==
    /\ Delivered
    /\ fr.pc = "Backup_set_backup"
    /\ registry' = IF fr.name \in DOMAIN registry
                   THEN registry
                   ELSE set_backup(registry, fr.name, fr.backup_future)
    /\ inflight' = Leave(fr) (+) SetToBag({[fr EXCEPT !.pc = "Backup_exit_with"]})
    /\ UNCHANGED <<futures, records, server, last>>
    /\ History

\* line 115: BackupMan.set_backup(resp.backupName, backup_future)
BackupRegister(fr) ==
    /\ Delivered
    /\ fr.pc = "Backup_set_backup"
    /\ registry' = set_backup(registry, fr.name, fr.backup_future)
    /\ inflight' = Leave(fr) (+) SetToBag({[fr EXCEPT !.pc = "Backup_exit_with"]})
    /\ UNCHANGED <<futures, records, server, last>>
    /\ History

\* end of the with block of line 111, then lines 117-125: leaving the block
\* calls executor.shutdown(wait=True), which joins the worker thread, so the
\* handler goes on only once the job it submitted is no longer running
BackupReturn(fr) ==
    /\ Delivered
    /\ fr.pc = "Backup_exit_with"
    /\ done(futures[fr.backup_future])
    /\ last' =
           [NoCall EXCEPT !.op = "Backup", !.name = fr.name,
                          !.returned = TRUE, !.code = OK,
                          !.backupName = fr.name, !.status = IN_PROGRESS,
                          !.backup_future = fr.backup_future]
    /\ inflight' = Leave(fr)
    /\ UNCHANGED <<registry, futures, records, server>>
    /\ History

\* --------------------------- the job: backup_node.handle_backup on its worker
\* the timestamps job f writes are told apart from those of the other jobs
StartStamp(f) == f
FinishStamp(f) == f + 1

\* the job writes its durable record as it goes: the record appears, then
\* its start timestamp
JobWrite(f) ==
    /\ Delivered
    /\ futures[f].state = "RUNNING"
    /\ LET n == futures[f].name IN
       \/ /\ n \notin DOMAIN records
          /\ records' = [m \in DOMAIN records \cup {n} |->
                IF m = n THEN [started |-> NoTime, finished |-> NoTime]
                ELSE records[m]]
       \/ /\ n \in DOMAIN records
          /\ records[n].started = NoTime
          /\ records' = [records EXCEPT ![n].started = StartStamp(f)]
    /\ UNCHANGED <<registry, futures, server, inflight, last>>
    /\ History

\* the job ends: normally (the record gets its finish timestamp) or with an
\* exception that the future captures
JobFinish(f, ok) ==
    /\ Delivered
    /\ futures[f].state = "RUNNING"
    /\ LET n == futures[f].name IN
       IF ok
       THEN /\ n \in DOMAIN records
            /\ records[n].started # NoTime
            /\ records[n].finished = NoTime
            /\ records' = [records EXCEPT ![n].finished = FinishStamp(f)]
            /\ futures' = [futures EXCEPT ![f].state = "FINISHED"]
       ELSE /\ futures' = [futures EXCEPT ![f].state = "FINISHED", ![f].exception = TRUE]
            /\ UNCHANGED records
    /\ UNCHANGED <<registry, server, inflight, last>>
    /\ History

\* ------------------------------------------------ MedusaService.BackupStatus
\* datetime.fromtimestamp(ts).strftime(TIMESTAMP_FORMAT): a non-empty text
\* that depends on the timestamp; fromtimestamp(None) raises TypeError
strftime(ts) == "1970-01-01 00:00:0" \o ToString(ts)

\* Python truthiness of a timestamp: None and 0 are false
truthy(ts) == ts # NoTime /\ ts # 0

\* a handler that reports a missing record the way the other handlers
\* report their faults (except Exception, INTERNAL)
BackupStatus_missing_is_internal(backupName, storage_fault) ==
    /\ FreeThread
    /\ server # "stopped"
    /\ LET call == [NoCall EXCEPT !.op = "BackupStatus", !.name = backupName,
                                  !.storage_fault = storage_fault]
           resolved == handle_backup_status(backupName)
       IN
       last' =
           IF storage_fault \/ backupName \notin DOMAIN records
           THEN [call EXCEPT !.returned = TRUE, !.code = INTERNAL]
           ELSE LET backup == records[backupName] IN
                IF resolved.raised \/ backup.started = NoTime
                THEN [call EXCEPT !.returned = TRUE, !.code = INTERNAL]
                ELSE [call EXCEPT
                        !.returned = TRUE,
                        !.startTime = strftime(backup.started),
                        !.finishTime = IF truthy(backup.finished)
                                       THEN strftime(backup.finished)
                                       ELSE "",
                        !.status = IF resolved.status \in {IN_PROGRESS, FAILED, SUCCESS}
                                   THEN resolved.status
                                   ELSE None]
    /\ UNCHANGED <<registry, futures, records, server, inflight>>
    /\ History

\* a handler that takes the status of a finished record from the record
BackupStatus_status_from_record(backupName, storage_fault) ==
    /\ FreeThread
    /\ server # "stopped"
    /\ LET call == [NoCall EXCEPT !.op = "BackupStatus", !.name = backupName,
                                  !.storage_fault = storage_fault]
           resolved == handle_backup_status(backupName)
       IN
       last' =
           IF storage_fault
           THEN call
           ELSE IF backupName \notin DOMAIN records
           THEN [call EXCEPT !.returned = TRUE, !.code = NOT_FOUND]
           ELSE LET backup == records[backupName] IN
                IF resolved.raised \/ backup.started = NoTime
                THEN call
                ELSE [call EXCEPT
                        !.returned = TRUE,
                        !.startTime = strftime(backup.started),
                        !.finishTime = IF truthy(backup.finished)
                                       THEN strftime(backup.finished)
                                       ELSE "",
                        !.status = IF truthy(backup.finished)
                                   THEN SUCCESS
                                   ELSE IF resolved.status \in {IN_PROGRESS, FAILED, SUCCESS}
                                   THEN resolved.status
                                   ELSE None]
    /\ UNCHANGED <<registry, futures, records, server, inflight>>
    /\ History

\* a handler that drops the entry of the name it has looked up
BackupStatus_forgets_entry(backupName, storage_fault) ==
    /\ FreeThread
    /\ server # "stopped"
    /\ LET call == [NoCall EXCEPT !.op = "BackupStatus", !.name = backupName,
                                  !.storage_fault = storage_fault]
           resolved == handle_backup_status(backupName)
       IN
       last' =
           IF storage_fault
           THEN call
           ELSE IF backupName \notin DOMAIN records
           THEN [call EXCEPT !.returned = TRUE, !.code = NOT_FOUND]
           ELSE LET backup == records[backupName] IN
                IF resolved.raised \/ backup.started = NoTime
                THEN call
                ELSE [call EXCEPT
                        !.returned = TRUE,
                        !.startTime = strftime(backup.started),
                        !.finishTime = IF truthy(backup.finished)
                                       THEN strftime(backup.finished)
                                       ELSE "",
                        !.status = IF resolved.status \in {IN_PROGRESS, FAILED, SUCCESS}
                                   THEN resolved.status
                                   ELSE None]
    /\ registry' = handle_backup_removal(registry, backupName)
    /\ UNCHANGED <<futures, records, server, inflight>>
    /\ History

\* lines 127-155, one request served from start to end. storage_fault is a
\* get_cluster_backup that raises something other than KeyError. The node
\* lists of lines 136-138 are copied from the record and left out here.
BackupStatus(backupName, storage_fault) ==
    /\ FreeThread
    /\ server # "stopped"
    /\ LET call == [NoCall EXCEPT !.op = "BackupStatus", !.name = backupName,
                                  !.storage_fault = storage_fault]
           resolved == handle_backup_status(backupName)
       IN
       last' =
           IF storage_fault
           THEN call
           ELSE IF backupName \notin DOMAIN records
           THEN [call EXCEPT !.returned = TRUE, !.code = NOT_FOUND]
           ELSE LET backup == records[backupName] IN
                IF resolved.raised \/ backup.started = NoTime
                THEN call
                ELSE [call EXCEPT
                        !.returned = TRUE,
                        !.startTime = strftime(backup.started),
                        !.finishTime = IF truthy(backup.finished)
                                       THEN strftime(backup.finished)
                                       ELSE "",
                        !.status = IF resolved.status \in {IN_PROGRESS, FAILED, SUCCESS}
                                   THEN resolved.status
                                   ELSE None]
    /\ UNCHANGED <<registry, futures, records, server, inflight>>
    /\ History

\* -------------------------------------------------- MedusaService.GetBackups
\* the orders in which the listing collaborator may return the records
Orders(S) ==
    {o \in [1 .. Cardinality(S) -> S] :
        \A i, j \in 1 .. Cardinality(S) : i # j => o[i] # o[j]}

\* a summary whose unfinished test reads the start timestamp
Summary_tests_started(name, backup, last_status) ==
    [backupName |-> name,
     startTime |-> IF backup.started = NoTime THEN 0 ELSE backup.started,
     finishTime |-> IF backup.started = NoTime THEN 0 ELSE backup.finished,
     status |-> IF backup.started = NoTime THEN IN_PROGRESS
                ELSE IF last_status # IN_PROGRESS THEN SUCCESS
                ELSE None]

\* lines 164-179 for one record, given the rolling last_status
Summary(name, backup, last_status) ==
    [backupName |-> name,
     startTime |-> IF backup.started = NoTime THEN 0 ELSE backup.started,
     finishTime |-> IF backup.finished = NoTime THEN 0 ELSE backup.finished,
     status |-> IF backup.finished = NoTime THEN IN_PROGRESS
                ELSE IF last_status # IN_PROGRESS THEN SUCCESS
                ELSE None]

\* a loop that forgets to roll the status (line 175 missing)
RollStatus_never_rolls(backup, last_status) == last_status

\* the rolling last_status after a record (line 175)
RollStatus(backup, last_status) ==
    IF backup.finished = NoTime THEN IN_PROGRESS ELSE last_status

\* the loop of lines 163-193 over the first upto records of the order
RECURSIVE Summaries(_, _, _, _)
Summaries(order, i, upto, last_status) ==
    IF i > upto
    THEN <<>>
    ELSE <<Summary(order[i], records[order[i]], last_status)>>
         \o Summaries(order, i + 1, upto, RollStatus(records[order[i]], last_status))

\* lines 157-199. fail_at = 0: get_backups raises; 1 <= fail_at <= N: the
\* collaborator raises while record fail_at is summarized (lines 181-191,
\* before the append of line 193); fail_at = N + 1: nothing raises
GetBackups(order, fail_at) ==
    /\ FreeThread
    /\ server # "stopped"
    /\ order \in Orders(DOMAIN records)
    /\ fail_at \in 0 .. Len(order) + 1
    /\ LET call == [NoCall EXCEPT !.op = "GetBackups", !.returned = TRUE] IN
       last' =
           IF fail_at = Len(order) + 1
           THEN [call EXCEPT !.backups = Summaries(order, 1, Len(order), SUCCESS)]
           ELSE [call EXCEPT !.code = INTERNAL,
                             !.backups = Summaries(order, 1, fail_at - 1, SUCCESS)]
    /\ UNCHANGED <<registry, futures, records, server, inflight>>
    /\ History

\* ------------------------------------------------ MedusaService.DeleteBackup
\* a handler that removes the registry entry whether or not the purge raised
DeleteBackup_removal_in_finally(name, purged) ==
    /\ FreeThread
    /\ server # "stopped"
    /\ purged => name \in DOMAIN records
    /\ records' = IF purged
                  THEN [n \in DOMAIN records \ {name} |-> records[n]]
                  ELSE records
    /\ registry' = handle_backup_removal(registry, name)
    /\ last' = [NoCall EXCEPT !.op = "DeleteBackup", !.name = name,
                              !.returned = TRUE,
                              !.code = IF purged THEN OK ELSE INTERNAL]
    /\ UNCHANGED <<futures, server, inflight>>
    /\ History

\* lines 201-212, one request served from start to end: delete_backup, then
\* handle_backup_removal unless the purge raised. The purge collaborator
\* succeeds only on a name that has a durable record.
DeleteBackup(name, purged) ==
    /\ FreeThread
    /\ server # "stopped"
    /\ purged => name \in DOMAIN records
    /\ records' = IF purged
                  THEN [n \in DOMAIN records \ {name} |-> records[n]]
                  ELSE records
    /\ registry' = IF purged
                   THEN handle_backup_removal(registry, name)
                   ELSE registry
    /\ last' = [NoCall EXCEPT !.op = "DeleteBackup", !.name = name,
                              !.returned = TRUE,
                              !.code = IF purged THEN OK ELSE INTERNAL]
    /\ UNCHANGED <<futures, server, inflight>>
    /\ History

\* ------------------------------------------------------------ Server.shutdown
\* lines 52-55, the SIGTERM handler: handle_backup_removal_all(), then
\* grpc_server.stop(0); no new request is accepted afterwards, the handlers
\* that are running go on to their end
shutdown ==
    /\ Delivered
    /\ server = "serving"
    /\ registry' = handle_backup_removal_all(registry)
    /\ server' = "stopped"
    /\ UNCHANGED <<futures, records, inflight, last>>
    /\ History

\* the return statements of lines 125, 151, 155, 195, 199 and 212 (or the
\* exception that leaves the handler): the transport sends the outcome
Respond ==
    /\ ~Delivered
    /\ last' = NoCall
    /\ UNCHANGED <<registry, futures, records, server, inflight>>
    /\ History

\* ------------------------------------------------------------ specification
Next ==
    \/ \E name \in Names, mode \in Modes, submitted \in BOOLEAN :
          BackupSubmit(name, mode, submitted)
    \/ \E fr \in BagToSet(inflight) : BackupRegister(fr)
    \/ \E fr \in BagToSet(inflight) : BackupReturn(fr)
    \/ \E f \in DOMAIN futures : JobWrite(f)
    \/ \E f \in DOMAIN futures, ok \in BOOLEAN : JobFinish(f, ok)
    \/ \E name \in Names, storage_fault \in BOOLEAN :
          BackupStatus(name, storage_fault)
    \/ \E order \in Orders(DOMAIN records), fail_at \in 0 .. Cardinality(Names) + 1 :
          GetBackups(order, fail_at)
    \/ \E name \in Names, purged \in BOOLEAN : DeleteBackup(name, purged)
    \/ Respond
    \/ shutdown

Spec == Init /\ [][Next]_vars

\* --------------------------------------- specification of the aggregator
\* GetBackups alone, over every durable storage of up to three records that
\* earlier runs of the service may have left behind
AggNames == {"A", "B", "C"}

RecordValues == [started : {NoTime, 1}, finished : {NoTime, 2}]

InitAgg ==
    /\ registry = EmptyDict
    /\ futures = <<>>
    /\ records \in UNION {[S -> RecordValues] : S \in SUBSET AggNames}
    /\ server = "serving"
    /\ inflight = EmptyBag
    /\ last = NoCall
    /\ registered = {}

NextAgg ==
    \/ \E order \in Orders(DOMAIN records), fail_at \in 0 .. Cardinality(AggNames) + 1 :
          GetBackups(order, fail_at)
    \/ Respond

SpecAgg == InitAgg /\ [][NextAgg]_vars

\* ------------------------------------------------------------ properties
\* the future the registry holds for a registered name
Handle(n) == futures[registry[n]]

Running(fut) == ~done(fut) /\ ~cancelled(fut)
CompletedNormally(fut) == done(fut) /\ ~cancelled(fut) /\ ~fut.exception
EndedInFailure(fut) == cancelled(fut) \/ (done(fut) /\ fut.exception)

\* the Backup call that submitted future f has returned
BackupReturned(f) == \A fr \in BagToSet(inflight) : fr.backup_future # f

\* C1: a Backup handler never waits for the job it submitted: once it has
\* registered the handle, its return does not depend on the job being
\* finished, so it can return while the handle is still unfinished.
C1_BackupNeverWaits ==
    \A fr \in BagToSet(inflight) :
        (Delivered /\ fr.pc = "Backup_exit_with") => ENABLED BackupReturn(fr)

\* C2: for every registered handle the resolver returns exactly one of
\* IN_PROGRESS (not complete, not cancelled), SUCCESS (completed normally),
\* FAILED (cancelled or completed abnormally), and never anything else.
C2_RegisteredResolvesThreeWay ==
    \A n \in DOMAIN registry :
        LET r == handle_backup_status(n) IN
        /\ ~r.raised
        /\ r.status \in {IN_PROGRESS, SUCCESS, FAILED}
        /\ (r.status = IN_PROGRESS) = Running(Handle(n))
        /\ (r.status = SUCCESS) = CompletedNormally(Handle(n))
        /\ (r.status = FAILED) = EndedInFailure(Handle(n))

\* C3: the resolver never raises for a failed job: for a registered handle
\* that finished with a captured exception it returns FAILED as a value.
C3_FailedJobIsAValue ==
    \A n \in DOMAIN registry :
        (done(Handle(n)) /\ Handle(n).exception)
            => handle_backup_status(n) = [raised |-> FALSE, status |-> FAILED]

\* C4: DeleteBackup(name) removes the registry entry of name if and only if
\* the purge succeeded: a call that ends after a successful purge returns
\* with code OK and leaves no entry for name (the other entries untouched);
\* a call whose purge raises returns with INTERNAL and leaves the registry
\* exactly as it was before the call.
C4_DeleteRemovesIffPurged ==
    [][(Delivered /\ last'.op = "DeleteBackup") =>
          /\ last'.returned
          /\ last'.code \in {OK, INTERNAL}
          /\ (last'.code = OK) =>
                /\ last'.name \notin DOMAIN registry'
                /\ \A m \in DOMAIN registry \ {last'.name} :
                      m \in DOMAIN registry' /\ registry'[m] = registry[m]
          /\ (last'.code = INTERNAL) => registry' = registry]_vars

\* C4 witness: a DeleteBackup whose purge raised has ended and the entry of
\* its name is still registered
C4_Witness ==
    /\ last.op = "DeleteBackup"
    /\ last.code = INTERNAL
    /\ last.name \in DOMAIN registry

\* C5: a GetBackups that fails while listing or summarizing signals an
\* internal error and returns a response without any summary.
C5_FailedListingIsEmpty ==
    (last.op = "GetBackups" /\ last.code = INTERNAL) => last.backups = <<>>

\* C6: every handler ends by returning a response, whatever its
\* collaborators or the job handle do; no fault leaves a handler unhandled.
C6_HandlersAlwaysReturn ==
    (last.op \in {"Backup", "BackupStatus", "GetBackups", "DeleteBackup"})
        => last.returned

\* C7: once Backup(name) has returned, a BackupStatus(name) that finds the
\* job running reports IN_PROGRESS with an empty finishTime, and one that
\* finds the job completed successfully reports SUCCESS with a non-empty
\* finishTime.
C7_EndToEnd ==
    (/\ last.op = "BackupStatus"
     /\ last.returned
     /\ last.code = OK
     /\ last.name \in DOMAIN registry
     /\ BackupReturned(registry[last.name]))
        => /\ Running(Handle(last.name))
                => last.status = IN_PROGRESS /\ last.finishTime = ""
           /\ CompletedNormally(Handle(last.name))
                => last.status = SUCCESS /\ last.finishTime \notin {"", None}

\* C8: a Backup(name) whose submission succeeded returns only after its job
\* was submitted and the handle registered under name, and its response
\* carries backupName = name and status = IN_PROGRESS.
C8_RegisteredBeforeReturn ==
    (last.op = "Backup" /\ last.code = OK) =>
        /\ last.returned
        /\ last.backupName = last.name
        /\ last.status = IN_PROGRESS
        /\ last.backup_future \in DOMAIN futures
        /\ futures[last.backup_future].name = last.name
        /\ <<last.name, last.backup_future>> \in registered

\* C8 witness: a Backup whose submission succeeded has returned
C8_Witness ==
    /\ last.op = "Backup"
    /\ last.code = OK
    /\ last.returned

\* C9: a name absent from the registry resolves to NOT_FOUND (Python's None),
\* and the resolver's result always lies in {NOT_FOUND, IN_PROGRESS,
\* SUCCESS, FAILED}.
C9_AbsentIsNotFound ==
    \A n \in Names :
        LET r == handle_backup_status(n) IN
        /\ ~r.raised
        /\ r.status \in {None, IN_PROGRESS, SUCCESS, FAILED}
        /\ (n \notin DOMAIN registry) => r.status = None

\* C9 witness: a name that was registered and then removed is absent
C9_Witness ==
    \E p \in registered : p[1] \notin DOMAIN registry

\* C10: an entry leaves the registry only in the step that ends a successful
\* DeleteBackup of its name or in the shutdown cleanup; job completion,
\* BackupStatus, GetBackups and failed DeleteBackup calls leave it in place.
C10_RemovedOnlyExplicitly ==
    [][\A n \in DOMAIN registry :
          (n \notin DOMAIN registry') =>
              \/ /\ last'.op = "DeleteBackup"
                 /\ last'.name = n
                 /\ last'.code = OK
                 /\ Delivered
              \/ server = "serving" /\ server' = "stopped"]_vars

\* C10 witness: the handle of a completed job is still registered when a
\* BackupStatus for its name has ended
C10_Witness ==
    /\ last.op = "BackupStatus"
    /\ last.name \in DOMAIN registry
    /\ done(Handle(last.name))

\* C11: a BackupStatus(name) for a name without durable record signals
\* NOT_FOUND and returns a response in which no field was populated,
\* whatever the registry holds for the name.
C11_MissingRecordIsNotFound ==
    (/\ last.op = "BackupStatus"
     /\ ~last.storage_fault
     /\ last.name \notin DOMAIN records)
        => /\ last.returned
           /\ last.code = NOT_FOUND
           /\ last.status = None
           /\ last.startTime = None
           /\ last.finishTime = None
           /\ last.backupName = None
           /\ last.backups = <<>>

\* C11 witness: the name has no record while its job is registered and
\* still running
C11_Witness ==
    /\ last.op = "BackupStatus"
    /\ ~last.storage_fault
    /\ last.name \notin DOMAIN records
    /\ last.name \in DOMAIN registry
    /\ Running(Handle(last.name))

\* a GetBackups has ended without a fault
Listed == last.op = "GetBackups" /\ last.code = OK

Unfinished(n) == records[n].finished = NoTime

\* C12: GetBackups over N records of which K have no finish timestamp
\* returns N summaries, one per record, of which exactly K report
\* finishTime = 0 and status IN_PROGRESS, in every order; a record without
\* start timestamp reports startTime = 0.
C12_UnfinishedAreCounted ==
    Listed =>
        /\ Len(last.backups) = Cardinality(DOMAIN records)
        /\ {last.backups[i].backupName : i \in DOMAIN last.backups} = DOMAIN records
        /\ Cardinality({i \in DOMAIN last.backups :
                last.backups[i].finishTime = 0 /\ last.backups[i].status = IN_PROGRESS})
             = Cardinality({n \in DOMAIN records : Unfinished(n)})
        /\ \A i \in DOMAIN last.backups :
              /\ Unfinished(last.backups[i].backupName)
                    <=> (last.backups[i].finishTime = 0
                         /\ last.backups[i].status = IN_PROGRESS)
              /\ records[last.backups[i].backupName].started = NoTime
                    => last.backups[i].startTime = 0

\* C12 witness: three records were listed, two of them unfinished, one of
\* them without start timestamp
C12_Witness ==
    /\ Listed
    /\ Len(last.backups) = 3
    /\ Cardinality({n \in DOMAIN records : Unfinished(n)}) = 2
    /\ \E n \in DOMAIN records : records[n].started = NoTime

\* C13: a finished record is given SUCCESS if and only if no record before
\* it in the order of the listing is unfinished, and no status otherwise;
\* [A finished, B unfinished, C finished] gives [SUCCESS, IN_PROGRESS, none].
C13_StatusFollowsOrder ==
    Listed =>
        \A i \in DOMAIN last.backups :
            ~Unfinished(last.backups[i].backupName) =>
                IF \A j \in 1 .. i - 1 : ~Unfinished(last.backups[j].backupName)
                THEN last.backups[i].status = SUCCESS
                ELSE last.backups[i].status = None

\* C13 witness: the scenario [A finished, B unfinished, C finished] and its
\* statuses
C13_Witness ==
    /\ Listed
    /\ Len(last.backups) = 3
    /\ [i \in 1 .. 3 |-> last.backups[i].backupName] = <<"A", "B", "C">>
    /\ ~Unfinished("A") /\ Unfinished("B") /\ ~Unfinished("C")
    /\ [i \in 1 .. 3 |-> last.backups[i].status] = <<SUCCESS, IN_PROGRESS, None>>

\* C14: a Backup whose submission fails signals an internal error, returns
\* a response with status FAILED and registers no handle: the call leaves
\* the registry (and the set of submitted jobs) as it was.
C14_FailedSubmissionRegistersNothing ==
    [][(Delivered /\ last'.op = "Backup" /\ last'.code # OK) =>
          /\ last'.returned
          /\ last'.code = INTERNAL
          /\ last'.status = FAILED
          /\ last'.backupName = last'.name
          /\ registry' = registry
          /\ futures' = futures
          /\ registered' = registered]_vars

\* C14 witness: a Backup whose submission failed has ended while another
\* name is registered and its own name is not
C14_Witness ==
    /\ last.op = "Backup"
    /\ last.code = INTERNAL
    /\ last.name \notin DOMAIN registry
    /\ registry # EmptyDict

\* C15: once the shutdown handler has finished, a lookup returns absent for
\* every name, also for the names of Backup requests that were being
\* handled while the shutdown ran.
C15_ShutdownLeavesNothing ==
    (server = "stopped") => \A n \in Names : get_backup_future(n) = NoFuture

\* the step is the set_backup of the Backup activation fr
Registers(fr) ==
    /\ fr.pc = "Backup_set_backup"
    /\ inflight' = Leave(fr) (+) SetToBag({[fr EXCEPT !.pc = "Backup_exit_with"]})

\* C16: the registry is read-after-write consistent and the last writer
\* wins: right after the register step of a Backup(name) a lookup of name
\* gives the handle of that Backup, also when name had a handle before, and
\* the handle a lookup gives changes in no other step than a register of
\* that name (or a removal or the shutdown cleanup, which make it absent).
C16_LastWriterWins ==
    [][/\ \A fr \in BagToSet(inflight) :
             Registers(fr) =>
                 /\ fr.name \in DOMAIN registry'
                 /\ registry'[fr.name] = fr.backup_future
                 /\ get_backup_future(fr.name)' = futures[fr.backup_future]
       /\ \A n \in DOMAIN registry' :
             (n \notin DOMAIN registry \/ registry'[n] # registry[n]) =>
                 \E fr \in BagToSet(inflight) :
                     /\ Registers(fr)
                     /\ fr.name = n
                     /\ fr.backup_future = registry'[n]]_vars

\* C16 witness: two Backup requests of one name are in flight, both have
\* registered, and a lookup gives the handle of one of them
C16_Witness ==
    \E fr1, fr2 \in BagToSet(inflight) :
        /\ fr1.name = fr2.name
        /\ fr1.backup_future # fr2.backup_future
        /\ fr1.pc = "Backup_exit_with"
        /\ fr2.pc = "Backup_exit_with"
        /\ fr1.name \in DOMAIN registry
        /\ registry[fr1.name] = fr2.backup_future

\* C17: removing a name is idempotent. In a DeleteBackup that removes the
\* name, a name absent from the registry leaves the registry as it was
\* (and the handler returns without error), a second removal of the same
\* name changes nothing more, and the entries of the other names stay.
C17_RemoveIsIdempotent ==
    [][(Delivered /\ last'.op = "DeleteBackup" /\ last'.code = OK) =>
          LET n == last'.name IN
          /\ last'.returned
          /\ n \notin DOMAIN registry'
          /\ handle_backup_removal(registry', n) = registry'
          /\ (n \notin DOMAIN registry => registry' = registry)
          /\ \A m \in DOMAIN registry \ {n} :
                m \in DOMAIN registry' /\ registry'[m] = registry[m]]_vars

\* C17 witness: a DeleteBackup has removed a name that was never registered
\* while another name has an entry
C17_Witness ==
    /\ last.op = "DeleteBackup"
    /\ last.code = OK
    /\ registry # EmptyDict
    /\ \A p \in registered : p[1] # last.name

\* C18: the status of a BackupStatus response comes from the resolver only:
\* it is IN_PROGRESS, FAILED or SUCCESS exactly when the resolver returned
\* that value, and no status is assigned when the name is absent from the
\* registry, whatever the finish timestamp of the record is.
C18_StatusOnlyFromRegistry ==
    (last.op = "BackupStatus" /\ last.returned /\ last.code = OK) =>
        /\ last.name \in DOMAIN records
        /\ \A st \in {IN_PROGRESS, FAILED, SUCCESS} :
              (last.status = st) <=> (handle_backup_status(last.name).status = st)
        /\ (last.name \notin DOMAIN registry => last.status = None)

\* C18 witness: a status response for a name that is absent from the
\* registry and whose record is finished
C18_Witness ==
    /\ last.op = "BackupStatus"
    /\ last.returned
    /\ last.code = OK
    /\ last.name \notin DOMAIN registry
    /\ last.name \in DOMAIN records
    /\ records[last.name].finished # NoTime

\* C19: BackupStatus and GetBackups leave the registry as it is, on success
\* and on error, and the summaries of GetBackups are the summaries of the
\* durable records (of a prefix of them when the listing fails).
C19_ReadersLeaveRegistry ==
    [][(Delivered /\ last'.op \in {"BackupStatus", "GetBackups"}) =>
          /\ registry' = registry
          /\ futures' = futures
          /\ (last'.op = "GetBackups" =>
                 last'.backups \in
                     {Summaries(o, 1, k, SUCCESS) :
                         o \in Orders(DOMAIN records),
                         k \in 0 .. Cardinality(DOMAIN records)})]_vars

\* C19 witness: a status response for a name that has an entry
C19_Witness ==
    /\ last.op = "BackupStatus"
    /\ last.returned
    /\ last.code = OK
    /\ last.name \in DOMAIN registry

\* C20: while a handle stays registered under a name, the resolver gives
\* IN_PROGRESS until it gives SUCCESS or FAILED, and then that value for
\* good.
C20_ResolvedStatusIsMonotone ==
    [][\A n \in DOMAIN registry \cap DOMAIN registry' :
          registry'[n] = registry[n] =>
              LET before == handle_backup_status(n)
                  after == handle_backup_status(n)'
              IN
              /\ ~before.raised
              /\ before.status \in {IN_PROGRESS, SUCCESS, FAILED}
              /\ after.status \in {IN_PROGRESS, SUCCESS, FAILED}
              /\ (before.status \in {SUCCESS, FAILED} =>
                     after.status = before.status)]_vars

====
